---- MODULE Spec2Model ----
(***************************************************************************)
(* Model of variant.py: one demux into an in-memory Frame Sequence, four   *)
(* Renderer threads (process_all_frames) that each run apply_video_effects *)
(* over every frame and encode the result, then the serial Remux Stage     *)
(* (mux_videos) and the verification / cleanup tail of main.               *)
(*                                                                         *)
(* A frame is one RGB pixel <<r, g, b>> of 8-bit samples.  Every source    *)
(* statement that touches the shared Frame Sequence is one atomic step of  *)
(* its thread, so the threads interleave statement by statement.           *)
(*                                                                         *)
(* Spec and FairSpec are a run of main.  DemuxSpec, MuxSpec and EffectSpec *)
(* are calls of demux_video_once, mux_videos and apply_video_effects on    *)
(* their own, with arguments main never passes (any stream list, lists of  *)
(* different lengths, any variant identity).                               *)
(***************************************************************************)
EXTENDS Integers, Sequences, FiniteSets, TLC

\* ---------------------------------------------------------------- bounds
MaxFrames == 2
MaxFaults == 1
MaxStreams == 3
MaxListLen == 3

\* ------------------------------------------------------ program constants
NumVariants == 4
Variants == 0 .. (NumVariants - 1)

input_file == "test.mp4"
processed_files ==
  <<"temp_processed_1.mp4", "temp_processed_2.mp4",
    "temp_processed_3.mp4", "temp_processed_4.mp4">>
final_outputs == <<"out1.mp4", "out2.mp4", "out3.mp4", "out4.mp4">>

SeqRange(s) == {s[k] : k \in 1 .. Len(s)}
Paths == {input_file} \cup SeqRange(processed_files) \cup SeqRange(final_outputs)

\* The sample triples the source frames are drawn from.
Pixels == {<<1, 1, 1>>}
FrameSeqs == UNION {[1 .. n -> Pixels] : n \in 0 .. MaxFrames}

\* ----------------------------------------------------------- file system
Absent == [kind |-> "absent", video |-> "", audio |-> "", whole |-> FALSE]
SourceFile == [kind |-> "source", video |-> "", audio |-> "", whole |-> TRUE]
RenderOpen == [kind |-> "render", video |-> "", audio |-> "", whole |-> FALSE]
RenderClosed == [kind |-> "render", video |-> "", audio |-> "", whole |-> TRUE]
Muxed(p) == [kind |-> "mux", video |-> p, audio |-> input_file, whole |-> TRUE]
Copied(p, f) == [kind |-> "copy", video |-> p, audio |-> "", whole |-> f.whole]
\* An output file an earlier run of the program left behind.
Stale == [kind |-> "stale", video |-> "", audio |-> "", whole |-> TRUE]
Exists(fs, p) == fs[p].kind # "absent"

VARIABLES
  files,            \* path -> file record
  source,           \* what the decoder yields for input_file
  files0,           \* the file system as it was when the call began
  dm,               \* demux_video_once: position, container and locals
  demux_ret,        \* the triple demux_video_once returned
  fx,               \* a direct call of apply_video_effects
  mainPc,           \* position of main
  all_frames,       \* main's all_frames: [absent, ref, list]
  threads,          \* main's threads list: the argument tuple of each Thread
  ji,               \* index of the thread main is joining
  ci,               \* index of the temp file the cleanup loop is at
  rpc,              \* position of each Renderer
  ridx,             \* 1-based index of the frame a Renderer is working on
  processed_count,  \* process_all_frames' processed_count
  encoded,          \* frames each Renderer submitted to its encoder
  escaped,          \* an exception left the Renderer's thread
  out_container,    \* calls each Renderer made on its output container
  mux_args,         \* the two lists mux_videos was called with
  mux_i,            \* 1-based index of the pair mux_videos is at
  muxPc,            \* position inside mux_videos
  exists_checks,    \* pair -> outcomes of os.path.exists(processed_file)
  tool_runs,        \* pair -> outcomes of subprocess.run
  copy_calls,       \* pair -> outcomes of shutil.copy2
  mux_raised,       \* an exception left mux_videos
  faults            \* exceptions injected so far

vars == <<files, source, files0, dm, demux_ret, fx, mainPc, all_frames,
          threads, ji, ci, rpc, ridx, processed_count, encoded, escaped, out_container,
          mux_args, mux_i, muxPc,
          exists_checks, tool_runs, copy_calls, mux_raised, faults>>

envVars == <<source, files0>>
demuxVars == <<dm, demux_ret>>
mainVars == <<mainPc, all_frames, threads, ji, ci>>
renderVars == <<rpc, ridx, processed_count, encoded, escaped,
               out_container>>
muxVars == <<mux_args, mux_i, muxPc, exists_checks, tool_runs, copy_calls,
             mux_raised>>

\* ------------------------------------------------------- 8-bit arithmetic
Min(a, b) == IF a < b THEN a ELSE b

\* Products v * (m10 / 10) whose float64 value lies just below the exact
\* integer, so that the cast to uint8 truncates one lower.
FloatBelow ==
  {<<14, 45>>, <<14, 85>>, <<14, 90>>, <<14, 165>>, <<14, 170>>,
   <<14, 175>>, <<14, 180>>, <<7, 90>>, <<7, 170>>, <<7, 180>>}

\* uint8(v * m10/10): float64 product stored into a uint8 array.
ScaleTrunc(v, m10) ==
  IF <<m10, v>> \in FloatBelow THEN ((v * m10) \div 10) - 1
  ELSE (v * m10) \div 10

\* uint8(np.clip(v * m10/10, 0, 255))
ScaleClip(v, m10) == Min(ScaleTrunc(v, m10), 255)

\* ------------------------------------------------------------- the frames
R == 1
G == 2
B == 3

\* The statements of apply_video_effects that are executed while img still
\* names the array that was passed in: steps 1-3 of variants 1, 2 and 3
\* assign into a channel of img.  Variant 0 has none (its first statement
\* rebinds img).
InPlace(variant, step, px) ==
  CASE variant = 1 /\ step = 1 -> [px EXCEPT ![B] = ScaleClip(px[B], 14)]
    [] variant = 1 /\ step = 2 -> [px EXCEPT ![R] = ScaleTrunc(px[R], 6)]
    [] variant = 1 /\ step = 3 -> [px EXCEPT ![G] = ScaleTrunc(px[G], 8)]
    [] variant = 2 /\ step = 1 -> [px EXCEPT ![G] = ScaleClip(px[G], 15)]
    [] variant = 2 /\ step = 2 -> [px EXCEPT ![R] = ScaleTrunc(px[R], 7)]
    [] variant = 2 /\ step = 3 -> [px EXCEPT ![B] = ScaleTrunc(px[B], 7)]
    [] variant = 3 /\ step = 1 -> [px EXCEPT ![R] = ScaleClip(px[R], 16)]
    [] variant = 3 /\ step = 2 -> [px EXCEPT ![G] = ScaleTrunc(px[G], 6)]
    [] variant = 3 /\ step = 3 -> [px EXCEPT ![B] = ScaleTrunc(px[B], 4)]
    [] OTHER -> px

\* Number of in-place statements a variant executes before its first
\* rebinding of img.
InPlaceSteps(variant) == IF variant \in {1, 2, 3} THEN 3 ELSE 0

\* Position at which apply_video_effects starts for a variant.
EffectEntry(variant) == IF InPlaceSteps(variant) > 0 THEN "inplace1" ELSE "rebind"
InPlacePc(step) ==
  CASE step = 1 -> "inplace1" [] step = 2 -> "inplace2" [] step = 3 -> "inplace3"
StepOfPc(pc) ==
  CASE pc = "inplace1" -> 1 [] pc = "inplace2" -> 2 [] pc = "inplace3" -> 3

\* ------------------------------------------------------------ containers
\* None, and a present value x, of a Python variable that may be None.
None == <<>>
Some(x) == <<x>>

\* The streams a container may hold, each with the attributes the demux
\* reads (attributes a stream type does not have are 0 or "").
Video1 ==
  [type |-> "video", width |-> 1280, height |-> 720, average_rate |-> 30,
   time_base |-> 1, rate |-> 0, channels |-> 0, layout |-> ""]
Video2 ==
  [type |-> "video", width |-> 640, height |-> 480, average_rate |-> 15,
   time_base |-> 2, rate |-> 0, channels |-> 0, layout |-> ""]
Audio1 ==
  [type |-> "audio", width |-> 0, height |-> 0, average_rate |-> 0,
   time_base |-> 0, rate |-> 44100, channels |-> 2, layout |-> "stereo"]
Audio2 ==
  [type |-> "audio", width |-> 0, height |-> 0, average_rate |-> 0,
   time_base |-> 0, rate |-> 48000, channels |-> 6, layout |-> "5.1"]
Data1 ==
  [type |-> "data", width |-> 0, height |-> 0, average_rate |-> 0,
   time_base |-> 0, rate |-> 0, channels |-> 0, layout |-> ""]
Streams == {Video1, Video2, Audio1, Audio2, Data1}
StreamLists == UNION {[1 .. n -> Streams] : n \in 0 .. MaxStreams}
HasType(streams, type) == \E k \in 1 .. Len(streams) : streams[k].type = type

\* --------------------------------------------- apply_video_effects alone
\* The frames and variant identities a direct call is made with.
FxSamples == {0, 1, 90, 128, 200, 255}
FxFrames == FxSamples \X FxSamples \X FxSamples
FxVariants == -1 .. NumVariants

\* The shapes (height, width) of the frames; every frame has 3 channels.
FxShapes == {<<1, 1>>, <<2, 2>>, <<3, 2>>}

\* The value that stands for "no branch of the if / elif chain".
NoBranch == -1

\* Variant of Branch in which the last branch is a plain else.
Branch_else_last(variant) == IF variant \in {0, 1, 2} THEN variant ELSE 3

\* The branch of the if / elif chain a variant identity selects; NoBranch
\* when no comparison matches (there is no else).
Branch(variant) == IF variant \in {0, 1, 2, 3} THEN variant ELSE NoBranch

\* Where a call starts: a variant outside 0..3 matches no branch.
FxEntry(variant) ==
  IF Branch(variant) \in Variants THEN EffectEntry(Branch(variant))
  ELSE "return"

\* img: the samples of the working array while the model computes them
\* exactly; pre: the working array in thousandths of a sample once it holds
\* floats; nan: the working array holds NaN; ret: the returned array.
FxIdle ==
  [pc |-> "idle", variant |-> 0, frame |-> <<0, 0, 0>>,
   frame0 |-> <<0, 0, 0>>, shared |-> FALSE, shape0 |-> <<1, 1>>,
   shape |-> <<1, 1>>, img |-> None, pre |-> None, nan |-> FALSE,
   ret |-> None]

\* ----------------------------------------------------------------- Init
\* No call of demux_video_once has been made.
DemuxIdle ==
  /\ dm = [pc |-> "idle", calls |-> 0, container |-> "none", closes |-> 0,
           frames |-> <<>>, video_info |-> None, audio_info |-> None]
  /\ demux_ret = None

\* No Renderer has been started.
RenderIdle ==
  /\ rpc = [i \in Variants |-> "idle"]
  /\ ridx = [i \in Variants |-> 0]
  /\ processed_count = [i \in Variants |-> 0]
  /\ encoded = [i \in Variants |-> <<>>]
  /\ escaped = [i \in Variants |-> FALSE]
  /\ out_container = [i \in Variants |-> <<>>]

\* main's locals before its first statement.
MainLocalsInit ==
  /\ all_frames = [absent |-> TRUE, ref |-> 0, list |-> <<>>]
  /\ threads = <<>>
  /\ ji = 0
  /\ ci = 0

\* The logs of mux_videos before it has done anything.
MuxLogsInit ==
  /\ exists_checks = <<>>
  /\ tool_runs = <<>>
  /\ copy_calls = <<>>
  /\ mux_raised = FALSE

\* No call of mux_videos has been made.
MuxIdle ==
  /\ mux_args = [processed_files |-> <<>>, final_outputs |-> <<>>]
  /\ mux_i = 0
  /\ muxPc = "idle"
  /\ MuxLogsInit

\* The program is run: main is about to execute its first statement.  The
\* input file may be missing or unreadable, and the working directory may
\* still hold the four outputs of an earlier run.
Init ==
  /\ \E ex \in BOOLEAN, bad \in BOOLEAN, old \in BOOLEAN, fr \in FrameSeqs :
       /\ (~ex \/ bad) => fr = <<>>
       /\ ~ex => ~bad
       /\ source = [corrupt |-> bad, streams |-> <<Video1, Audio1>>,
                    frames |-> fr]
       /\ files = [p \in Paths |->
                     IF p = input_file
                     THEN IF ex THEN SourceFile ELSE Absent
                     ELSE IF old /\ p \in SeqRange(final_outputs)
                          THEN Stale ELSE Absent]
  /\ files0 = files
  /\ mainPc = "check_input"
  /\ MainLocalsInit
  /\ DemuxIdle
  /\ RenderIdle
  /\ MuxIdle
  /\ fx = FxIdle
  /\ faults = 0

\* mux_videos is called on its own with two lists of any lengths; each
\* rendered file named in the first list is there or not.
InitMux ==
  /\ \E lp \in 0 .. Min(MaxListLen, Len(processed_files)),
        lo \in 0 .. Min(MaxListLen, Len(final_outputs)),
        there \in SUBSET (1 .. Min(MaxListLen, Len(processed_files))) :
       /\ there \subseteq 1 .. lp
       /\ mux_args = [processed_files |-> SubSeq(processed_files, 1, lp),
                      final_outputs |-> SubSeq(final_outputs, 1, lo)]
       /\ muxPc = IF Min(lp, lo) >= 1 THEN "check" ELSE "returned"
       /\ files = [p \in Paths |->
                     IF p = input_file THEN SourceFile
                     ELSE IF \E k \in there : p = processed_files[k]
                          THEN RenderClosed ELSE Absent]
  /\ source = [corrupt |-> FALSE, streams |-> <<Video1, Audio1>>,
               frames |-> <<>>]
  /\ files0 = files
  /\ mainPc = "direct"
  /\ mux_i = 1
  /\ MuxLogsInit
  /\ MainLocalsInit
  /\ DemuxIdle
  /\ RenderIdle
  /\ fx = FxIdle
  /\ faults = 0

\* demux_video_once is called on its own on a container with any streams.
\* Only a container with a video stream yields frames.
InitDemux ==
  /\ \E ex \in BOOLEAN, bad \in BOOLEAN, sl \in StreamLists,
        fr \in FrameSeqs :
       /\ (~ex \/ bad \/ ~HasType(sl, "video")) => fr = <<>>
       /\ (~ex \/ bad) => sl = <<>>
       /\ ~ex => ~bad
       /\ source = [corrupt |-> bad, streams |-> sl, frames |-> fr]
       /\ files = [p \in Paths |->
                     IF p = input_file /\ ex THEN SourceFile ELSE Absent]
  /\ files0 = files
  /\ mainPc = "direct"
  /\ MainLocalsInit
  /\ dm = [pc |-> "open", calls |-> 1, container |-> "none", closes |-> 0,
           frames |-> <<>>, video_info |-> None, audio_info |-> None]
  /\ demux_ret = None
  /\ RenderIdle
  /\ MuxIdle
  /\ fx = FxIdle
  /\ faults = 0

\* apply_video_effects is called on its own on one frame.
InitEffect ==
  /\ \E px \in FxFrames, v \in FxVariants, sh \in FxShapes :
       fx = [pc |-> FxEntry(v), variant |-> v, frame |-> px, frame0 |-> px,
             shared |-> TRUE, shape0 |-> sh, shape |-> sh, img |-> None,
             pre |-> None, nan |-> FALSE, ret |-> None]
  /\ source = [corrupt |-> FALSE, streams |-> <<Video1, Audio1>>,
               frames |-> <<>>]
  /\ files = [p \in Paths |-> IF p = input_file THEN SourceFile ELSE Absent]
  /\ files0 = files
  /\ mainPc = "direct"
  /\ MainLocalsInit
  /\ DemuxIdle
  /\ RenderIdle
  /\ MuxIdle
  /\ faults = 0

\* ----------------------------------------------------- demux_video_once
\* Variant of FirstStream without the break: the last stream of the type.
FirstStream_last(streams, type, k) ==
  LET S == {j \in k .. Len(streams) : streams[j].type = type}
  IN  IF S = {} THEN 0 ELSE CHOOSE j \in S : \A i \in S : i <= j

\* The first stream of a type in container order: the for loop with its
\* break.  0 when the loop ends without a match.
RECURSIVE FirstStream(_, _, _)
FirstStream(streams, type, k) ==
  IF k > Len(streams) THEN 0
  ELSE IF streams[k].type = type THEN k
  ELSE FirstStream(streams, type, k + 1)

\* The dictionaries built from a video and from an audio stream.
VideoInfo(stream) ==
  [width |-> stream.width, height |-> stream.height,
   rate |-> stream.average_rate, time_base |-> stream.time_base]
AudioInfo(stream) ==
  [rate |-> stream.rate, channels |-> stream.channels,
   layout |-> stream.layout]

\* Variant of DemuxExcept that returns what was collected so far.
DemuxExcept_partial(d) ==
  [frames |-> Some(d.frames), video_info |-> d.video_info,
   audio_info |-> d.audio_info]

\* The value the except handler returns.
DemuxExcept(d) ==
  [frames |-> None, video_info |-> None, audio_info |-> None]

\* Variant of DemuxReturn that returns None for an empty frame list.
DemuxReturn_empty_is_none(d) ==
  [frames |-> IF d.frames = <<>> THEN None ELSE Some(d.frames),
   video_info |-> d.video_info, audio_info |-> d.audio_info]

\* The value the success path returns.
DemuxReturn(d) ==
  [frames |-> Some(d.frames), video_info |-> d.video_info,
   audio_info |-> d.audio_info]

\* container = av.open(input_file), then the three locals.  A missing or
\* unreadable file makes av.open raise.
DemuxOpen ==
  /\ dm.pc = "open"
  /\ IF Exists(files, input_file) /\ ~source.corrupt
     THEN /\ dm' = [dm EXCEPT !.pc = "video_info", !.container = "open",
                              !.frames = <<>>, !.video_info = None,
                              !.audio_info = None]
          /\ UNCHANGED demux_ret
     ELSE /\ dm' = [dm EXCEPT !.pc = "returned"]
          /\ demux_ret' = Some(DemuxExcept(dm))
  /\ UNCHANGED <<files, envVars, fx, mainVars, renderVars, muxVars, faults>>

\* for stream in container.streams: if stream.type == 'video': ...; break
DemuxVideoInfo ==
  /\ dm.pc = "video_info"
  /\ LET k == FirstStream(source.streams, "video", 1)
     IN  dm' = [dm EXCEPT !.pc = "audio_info",
                          !.video_info =
                            IF k = 0 THEN None
                            ELSE Some(VideoInfo(source.streams[k]))]
  /\ UNCHANGED <<files, envVars, demux_ret, fx, mainVars, renderVars,
                 muxVars, faults>>

\* for stream in container.streams: if stream.type == 'audio': ...; break
DemuxAudioInfo ==
  /\ dm.pc = "audio_info"
  /\ LET k == FirstStream(source.streams, "audio", 1)
     IN  dm' = [dm EXCEPT !.pc = "decode",
                          !.audio_info =
                            IF k = 0 THEN None
                            ELSE Some(AudioInfo(source.streams[k]))]
  /\ UNCHANGED <<files, envVars, demux_ret, fx, mainVars, renderVars,
                 muxVars, faults>>

\* One iteration of for frame in container.decode(video=0), or its end.
DemuxDecode ==
  /\ dm.pc = "decode"
  /\ LET k == Len(dm.frames) + 1
     IN  dm' = IF k <= Len(source.frames)
               THEN [dm EXCEPT !.frames = Append(@, source.frames[k])]
               ELSE [dm EXCEPT !.pc = "close"]
  /\ UNCHANGED <<files, envVars, demux_ret, fx, mainVars, renderVars,
                 muxVars, faults>>

\* container.close() and the return statement.
DemuxClose ==
  /\ dm.pc = "close"
  /\ dm' = [dm EXCEPT !.pc = "returned", !.container = "closed",
                      !.closes = @ + 1]
  /\ demux_ret' = Some(DemuxReturn(dm))
  /\ UNCHANGED <<files, envVars, fx, mainVars, renderVars, muxVars, faults>>

\* A statement after av.open raises (stream access, decode, to_ndarray,
\* close): control goes to the except handler, which returns.
DemuxRaises ==
  /\ dm.pc \in {"video_info", "audio_info", "decode", "close"}
  /\ faults < MaxFaults
  /\ faults' = faults + 1
  /\ dm' = [dm EXCEPT !.pc = "returned"]
  /\ demux_ret' = Some(DemuxExcept(dm))
  /\ UNCHANGED <<files, envVars, fx, mainVars, renderVars, muxVars>>

demux_video_once ==
  \/ DemuxOpen
  \/ DemuxVideoInfo
  \/ DemuxAudioInfo
  \/ DemuxDecode
  \/ DemuxClose
  \/ DemuxRaises

\* ----------------------------------------------------------------- main
\* Variant of AfterCheck that goes straight to the thread start loop.
AfterCheck_no_demux(found) == IF found THEN "start" ELSE "returned"

\* if not os.path.exists(input_file): return
AfterCheck(found) == IF found THEN "demux" ELSE "returned"

\* os.path.exists(input_file) guard at the top of main.
CheckInput ==
  /\ mainPc = "check_input"
  /\ mainPc' = AfterCheck(Exists(files, input_file))
  /\ UNCHANGED <<files, envVars, demuxVars, fx, all_frames, threads, ji, ci,
                 renderVars, muxVars, faults>>

\* main calls demux_video_once(input_file).
CallDemux ==
  /\ mainPc = "demux"
  /\ dm.pc = "idle"
  /\ dm' = [dm EXCEPT !.pc = "open", !.calls = @ + 1]
  /\ UNCHANGED <<files, envVars, demux_ret, fx, mainVars, renderVars,
                 muxVars, faults>>

\* Variant of AfterDemux that tests the truth value of the list, so that an
\* empty list ends main as None does.
AfterDemux_empty_aborts(frames) ==
  IF frames = None \/ frames = Some(<<>>) THEN "returned" ELSE "start"

\* Variant of AfterDemux that goes on whatever was returned.
AfterDemux_go_on(frames) == "start"

\* Where main goes once the call has returned: if all_frames is None: return
AfterDemux(frames) == IF frames = None THEN "returned" ELSE "start"

\* all_frames, video_info, audio_info = <the returned triple>
Demux ==
  /\ mainPc = "demux"
  /\ dm.pc = "returned"
  /\ LET ret == demux_ret[1]
     IN  /\ all_frames' = IF ret.frames = None
                          THEN [absent |-> TRUE, ref |-> 0, list |-> <<>>]
                          ELSE [absent |-> FALSE, ref |-> 1,
                                list |-> ret.frames[1]]
         /\ mainPc' = AfterDemux(ret.frames)
  /\ UNCHANGED <<files, envVars, demuxVars, fx, threads, ji, ci, renderVars,
                 muxVars, faults>>

\* Variant of ThreadArgs that hands every thread the first output path.
ThreadArgs_same_file(i) ==
  [all_frames |-> all_frames.ref, output_file |-> processed_files[1],
   effect_variant |-> i, thread_id |-> i]

\* args=(all_frames, processed_files[i], i, i)
ThreadArgs(i) ==
  [all_frames |-> all_frames.ref, output_file |-> processed_files[i + 1],
   effect_variant |-> i, thread_id |-> i]

\* Variant of AfterStart that joins right after the first start.
AfterStart_join_each(i) == "join"

\* Where main goes after thread.start() of thread i: the start loop runs
\* over range(4) before the join loop begins.
AfterStart(i) == IF i + 1 < NumVariants THEN "start" ELSE "join"

\* threading.Thread(...); threads.append(thread); thread.start()
StartThread ==
  /\ mainPc = "start"
  /\ LET i == Len(threads) IN
       /\ threads' = Append(threads, ThreadArgs(i))
       /\ rpc' = [rpc EXCEPT ![i] = "open"]
       /\ mainPc' = AfterStart(i)
  /\ ji' = 0
  /\ UNCHANGED <<files, envVars, demuxVars, fx, all_frames, ci, ridx, processed_count, encoded,
                 escaped, out_container, muxVars, faults>>

Terminated(i) == rpc[i] \in {"done", "failed"}

\* Variant of JoinReady in which join never returns.
JoinReady_never(j) == FALSE

\* Variant of JoinReady that does not wait for the thread.
JoinReady_no_wait(j) == TRUE

\* thread.join() returns once the thread's target has returned.
JoinReady(j) == Terminated(j)

JoinThread ==
  /\ mainPc = "join"
  /\ ji < Len(threads)
  /\ JoinReady(threads[ji + 1].thread_id)
  /\ ji' = ji + 1
  /\ UNCHANGED <<files, envVars, demuxVars, fx, mainPc, all_frames, threads, ci, renderVars,
                 muxVars, faults>>

\* After the join loop: mux_videos(processed_files, final_outputs).
CallMux ==
  /\ mainPc = "join"
  /\ ji = Len(threads)
  /\ mainPc' = "mux"
  /\ mux_args' = [processed_files |-> processed_files,
                  final_outputs |-> final_outputs]
  /\ mux_i' = 1
  /\ muxPc' = "check"
  /\ UNCHANGED <<files, envVars, demuxVars, fx, all_frames, threads, ji, ci, renderVars,
                 exists_checks, tool_runs, copy_calls, mux_raised, faults>>

\* --------------------------------------------------- process_all_frames
\* Statements that touch only the Renderer's own output container are
\* grouped with the statement before them: no other thread reads that
\* container or its file until the Renderer has been joined.
Arg(i) == threads[i + 1]
Running(i) == rpc[i] \notin {"idle", "done", "failed"}

\* Variant of LoopNext that skips every other frame.
LoopNext_skip(k) == k + 2

\* for img in all_frames: index of the iteration after the one over frame k.
LoopNext(k) == k + 1

\* Position of Renderer i when its loop reaches index k: the first statement
\* of apply_video_effects, or the flush after the last frame.
LoopPc(i, k) ==
  IF k <= Len(all_frames.list) THEN EffectEntry(Arg(i).effect_variant)
  ELSE "flush"

\* av.open(output_file, mode='w') creates the output file; add_stream and
\* the stream settings; processed_count = 0; the loop fetches frame 1.
OpenOutput(i) ==
  /\ rpc[i] = "open"
  /\ files' = [files EXCEPT ![Arg(i).output_file] = RenderOpen]
  /\ processed_count' = [processed_count EXCEPT ![i] = 0]
  /\ ridx' = [ridx EXCEPT ![i] = 1]
  /\ rpc' = [rpc EXCEPT ![i] = LoopPc(i, 1)]
  /\ out_container' = [out_container EXCEPT ![i] = Append(@, "open")]
  /\ UNCHANGED <<envVars, demuxVars, fx, mainVars, encoded, escaped, muxVars, faults>>

\* An in-place statement of apply_video_effects: img still names the array
\* that was passed in, so the assignment writes all_frames[k].
InPlaceStep(i) ==
  /\ rpc[i] \in {"inplace1", "inplace2", "inplace3"}
  /\ LET v == Arg(i).effect_variant
         s == StepOfPc(rpc[i])
         k == ridx[i]
     IN /\ all_frames' =
             [all_frames EXCEPT !.list[k] = InPlace(v, s, all_frames.list[k])]
        /\ rpc' = [rpc EXCEPT ![i] =
                     IF s < InPlaceSteps(v) THEN InPlacePc(s + 1) ELSE "rebind"]
  /\ UNCHANGED <<files, envVars, demuxVars, fx, mainPc, threads, ji, ci, ridx,
                 processed_count, encoded, escaped, out_container, muxVars,
                 faults>>

\* The first rebinding statement reads the shared frame into a new array and
\* the rest of the pipeline works on that array; then
\* av.VideoFrame.from_ndarray, video_stream.encode, out_container.mux,
\* processed_count += 1, and the loop fetches the next frame.
RenderFrame(i) ==
  /\ rpc[i] = "rebind"
  /\ encoded' = [encoded EXCEPT ![i] =
                   Append(@, [index |-> ridx[i],
                              effect_variant |-> Arg(i).effect_variant])]
  /\ processed_count' = [processed_count EXCEPT ![i] = @ + 1]
  /\ ridx' = [ridx EXCEPT ![i] = LoopNext(ridx[i])]
  /\ rpc' = [rpc EXCEPT ![i] = LoopPc(i, LoopNext(ridx[i]))]
  /\ out_container' = [out_container EXCEPT ![i] = Append(@, "encode")]
  /\ UNCHANGED <<files, envVars, demuxVars, fx, mainVars, escaped, muxVars, faults>>

\* Variant of FinishOps that closes the container before the flush.
FinishOps_close_first == <<"close", "flush">>

\* After the loop: the flush (video_stream.encode() with no frame, its
\* packets muxed), then out_container.close().
FinishOps == <<"flush", "close">>

\* The flush (video_stream.encode() with no frame), then
\* out_container.close() finalizes the file; process_all_frames returns.
FinishOutput(i) ==
  /\ rpc[i] = "flush"
  /\ out_container' = [out_container EXCEPT ![i] = @ \o FinishOps]
  /\ files' = [files EXCEPT ![Arg(i).output_file] = RenderClosed]
  /\ rpc' = [rpc EXCEPT ![i] = "done"]
  /\ UNCHANGED <<envVars, demuxVars, fx, mainVars, ridx, processed_count, encoded, escaped,
                 muxVars, faults>>

\* Variant of ExceptHandler without the except clause: the exception leaves
\* the thread's target.
ExceptHandler_uncaught(i) == [pc |-> "failed", escaped |-> TRUE]

\* except Exception as e: print(...).  The handler swallows the exception
\* and process_all_frames returns normally.
ExceptHandler(i) == [pc |-> "failed", escaped |-> FALSE]

\* Any statement inside the try block raises.  Nothing closes or removes the
\* output file: it stays as it was, and when the raise comes from av.open
\* itself it was never created.
RendererRaises(i) ==
  /\ Running(i)
  /\ faults < MaxFaults
  /\ faults' = faults + 1
  /\ rpc' = [rpc EXCEPT ![i] = ExceptHandler(i).pc]
  /\ escaped' = [escaped EXCEPT ![i] = ExceptHandler(i).escaped]
  /\ \/ UNCHANGED <<files, out_container>>
     \/ /\ rpc[i] = "open"
        /\ files' = [files EXCEPT ![Arg(i).output_file] = RenderOpen]
        /\ out_container' = [out_container EXCEPT ![i] = Append(@, "open")]
  /\ UNCHANGED <<envVars, demuxVars, fx, mainVars, ridx, processed_count, encoded, muxVars>>

Renderer(i) ==
  \/ OpenOutput(i)
  \/ InPlaceStep(i)
  \/ RenderFrame(i)
  \/ FinishOutput(i)
  \/ RendererRaises(i)

\* ----------------------------------------------------------- mux_videos
\* Variant of NumPairs that stops one pair early.
NumPairs_one_less ==
  Min(Len(mux_args.processed_files), Len(mux_args.final_outputs)) - 1

\* zip(processed_files, final_outputs) stops at the shorter list.
NumPairs == Min(Len(mux_args.processed_files), Len(mux_args.final_outputs))
PairIn(k) == mux_args.processed_files[k]
PairOut(k) == mux_args.final_outputs[k]

\* Variant of Cmd that takes the audio from the rendered file as well.
Cmd_audio_from_render(processed_file, final_output) ==
  <<"ffmpeg", "-y", "-i", processed_file, "-i", processed_file, "-c:v",
    "copy", "-c:a", "aac", "-map", "0:v:0", "-map", "1:a:0", "-shortest",
    final_output>>

\* The ffmpeg command line built for a pair.
Cmd(processed_file, final_output) ==
  <<"ffmpeg", "-y", "-i", processed_file, "-i", "test.mp4", "-c:v", "copy",
    "-c:a", "aac", "-map", "0:v:0", "-map", "1:a:0", "-shortest",
    final_output>>

\* mux_videos is running, called by main or by another caller.
InMux == mainPc \in {"mux", "direct"}

\* The for loop moves on to pair k, or mux_videos returns to its caller.
MuxGoto(k) ==
  /\ mux_i' = k
  /\ muxPc' = IF k <= NumPairs THEN "check" ELSE "returned"
  /\ mainPc' = IF k > NumPairs /\ mainPc = "mux" THEN "verify" ELSE mainPc

\* Variant of SkipPair that never skips.
SkipPair_never(found) == FALSE

\* if not os.path.exists(processed_file)
SkipPair(found) == ~found

\* if not os.path.exists(processed_file): print(...); continue
MuxCheck ==
  /\ InMux
  /\ muxPc = "check"
  /\ LET k == mux_i
         found == Exists(files, PairIn(k))
     IN /\ exists_checks' =
             Append(exists_checks, [pair |-> k, path |-> PairIn(k),
                                    result |-> found])
        /\ IF ~SkipPair(found)
           THEN /\ muxPc' = "run"
                /\ UNCHANGED <<mux_i, mainPc>>
           ELSE MuxGoto(k + 1)
  /\ UNCHANGED <<files, envVars, demuxVars, fx, all_frames, threads, ji, ci, renderVars,
                 mux_args, tool_runs, copy_calls, mux_raised, faults>>

\* Variant of MuxExcept that goes through the same pair again.
MuxExcept_retry(k) == [next |-> k, raised |-> FALSE]

\* Variant of MuxExcept with the try around the whole loop: the first
\* exception ends mux_videos.
MuxExcept_abort(k) == [next |-> NumPairs + 1, raised |-> TRUE]

\* except Exception as e: print(...) inside the for loop: the loop goes on
\* with the next pair.
MuxExcept(k) == [next |-> k + 1, raised |-> FALSE]

\* Variant of NeedsFallback that copies after every tool run.
NeedsFallback_always(returncode) == TRUE

\* if result.returncode == 0: ... else: fallback copy
NeedsFallback(returncode) == returncode # 0

\* result = subprocess.run(cmd, capture_output=True, text=True)
MuxRun ==
  /\ InMux
  /\ muxPc = "run"
  /\ LET k == mux_i
         call == [pair |-> k, cmd |-> Cmd(PairIn(k), PairOut(k))]
     IN \/ \* the tool ran and exited with a status
           \E rc \in {0, 1} :
             /\ tool_runs' = Append(tool_runs,
                  [pair |-> call.pair, cmd |-> call.cmd, raised |-> FALSE,
                   returncode |-> rc])
             /\ files' = IF rc = 0
                         THEN [files EXCEPT ![PairOut(k)] = Muxed(PairIn(k))]
                         ELSE files
             /\ IF NeedsFallback(rc)
                THEN /\ muxPc' = "copy"
                     /\ UNCHANGED <<mux_i, mainPc>>
                ELSE MuxGoto(k + 1)
             /\ UNCHANGED <<mux_raised, faults>>
        \/ \* the tool could not be run: subprocess.run raises
           /\ faults < MaxFaults
           /\ faults' = faults + 1
           /\ tool_runs' = Append(tool_runs,
                [pair |-> call.pair, cmd |-> call.cmd, raised |-> TRUE,
                 returncode |-> -1])
           /\ mux_raised' = MuxExcept(k).raised
           /\ MuxGoto(MuxExcept(k).next)
           /\ UNCHANGED files
  /\ UNCHANGED <<envVars, demuxVars, fx, all_frames, threads, ji, ci, renderVars, mux_args,
                 exists_checks, copy_calls>>

\* shutil.copy2(processed_file, final_output)
MuxCopy ==
  /\ InMux
  /\ muxPc = "copy"
  /\ LET k == mux_i
     IN \/ /\ copy_calls' = Append(copy_calls,
                [pair |-> k, src |-> PairIn(k), dst |-> PairOut(k),
                 raised |-> FALSE])
           /\ files' = [files EXCEPT ![PairOut(k)] =
                          Copied(PairIn(k), files[PairIn(k)])]
           /\ MuxGoto(k + 1)
           /\ UNCHANGED <<mux_raised, faults>>
        \/ /\ faults < MaxFaults
           /\ faults' = faults + 1
           /\ copy_calls' = Append(copy_calls,
                [pair |-> k, src |-> PairIn(k), dst |-> PairOut(k),
                 raised |-> TRUE])
           /\ mux_raised' = MuxExcept(k).raised
           /\ MuxGoto(MuxExcept(k).next)
           /\ UNCHANGED files
  /\ UNCHANGED <<envVars, demuxVars, fx, all_frames, threads, ji, ci, renderVars, mux_args,
                 exists_checks, tool_runs>>

\* ------------------------------------------------- main: verify, cleanup
\* all(os.path.exists(output) for output in final_outputs)
all_outputs_exist ==
  \A k \in 1 .. Len(final_outputs) : Exists(files, final_outputs[k])

\* The verification loop and the cleanup decision.
Verify ==
  /\ mainPc = "verify"
  /\ mainPc' = IF all_outputs_exist THEN "cleanup" ELSE "returned"
  /\ ci' = 1
  /\ UNCHANGED <<files, envVars, demuxVars, fx, all_frames, threads, ji, renderVars, muxVars,
                 faults>>

\* if os.path.exists(temp_file): os.remove(temp_file), for one temp file.
Cleanup ==
  /\ mainPc = "cleanup"
  /\ files' = [files EXCEPT ![processed_files[ci]] = Absent]
  /\ ci' = ci + 1
  /\ mainPc' = IF ci < Len(processed_files) THEN "cleanup" ELSE "returned"
  /\ UNCHANGED <<envVars, demuxVars, fx, all_frames, threads, ji, renderVars, muxVars, faults>>

\* ------------------------------------------------------------------ Spec
Next ==
  \/ CheckInput
  \/ CallDemux
  \/ demux_video_once
  \/ Demux
  \/ StartThread
  \/ JoinThread
  \/ CallMux
  \/ \E i \in Variants : Renderer(i)
  \/ MuxCheck
  \/ MuxRun
  \/ MuxCopy
  \/ Verify
  \/ Cleanup

Spec == Init /\ [][Next]_vars

\* ------------------------------------------------ the functions on their own
NextDemux == demux_video_once
DemuxSpec == InitDemux /\ [][NextDemux]_vars

NextMux ==
  \/ MuxCheck
  \/ MuxRun
  \/ MuxCopy
MuxSpec == InitMux /\ [][NextMux]_vars

\* One statement that assigns into a channel of img while img is still the
\* array the caller passed.
FxInPlace ==
  /\ fx.pc \in {"inplace1", "inplace2", "inplace3"}
  /\ LET step == StepOfPc(fx.pc)
     IN  fx' = [fx EXCEPT
                  !.frame = IF fx.shared
                            THEN InPlace(Branch(fx.variant), step, @)
                            ELSE @,
                  !.pc = IF step < InPlaceSteps(Branch(fx.variant))
                         THEN InPlacePc(step + 1) ELSE "rebind"]
  /\ UNCHANGED <<files, envVars, demuxVars, mainVars, renderVars, muxVars,
                 faults>>

\* uint8 array with a Python integer: the result is uint8 and wraps.
AddU8(v, k) == (v + k) % 256
SubU8(v, k) == (v - k) % 256
Clip255(v) == IF v < 0 THEN 0 ELSE IF v > 255 THEN 255 ELSE v

\* img = 255 - img
Invert(v) == SubU8(255, v)

\* img = np.clip(img + 30, 0, 255).astype(np.uint8): the sum is uint8
\* already when np.clip sees it.
Brighten(v) == Clip255(AddU8(v, 30))

\* img = np.clip((img - 128) * 1.2 + 128, 0, 255).astype(np.uint8): the
\* difference is uint8, the product and the sum are float64.
Contrast(v) == Clip255((12 * SubU8(v, 128)) \div 10 + 128)


\* The first img = <expression>: img names a new array from here on.  For
\* variant 0 it is the inversion; the model does not compute the samples
\* of the other variants from here on.
FxRebind ==
  /\ fx.pc = "rebind"
  /\ fx' = IF Branch(fx.variant) = 0
           THEN [fx EXCEPT !.shared = FALSE, !.pc = "brightness",
                           !.img = Some([c \in 1 .. 3 |-> Invert(fx.frame[c])])]
           ELSE [fx EXCEPT !.shared = FALSE, !.pc = "tail"]
  /\ UNCHANGED <<files, envVars, demuxVars, mainVars, renderVars, muxVars,
                 faults>>

\* Variant 0, 2. Brightness adjustment.
FxBrightness ==
  /\ fx.pc = "brightness"
  /\ fx' = [fx EXCEPT !.pc = "contrast",
                      !.img = Some([c \in 1 .. 3 |-> Brighten(fx.img[1][c])])]
  /\ UNCHANGED <<files, envVars, demuxVars, mainVars, renderVars, muxVars,
                 faults>>

\* Variant 0, 3. Contrast enhancement.
FxContrast ==
  /\ fx.pc = "contrast"
  /\ fx' = [fx EXCEPT !.pc = "tail",
                      !.img = Some([c \in 1 .. 3 |-> Contrast(fx.img[1][c])])]
  /\ UNCHANGED <<files, envVars, demuxVars, mainVars, renderVars, muxVars,
                 faults>>

\* Float samples are kept in thousandths.
Milli(v) == v * 1000
ScaleM(m, f) == (m * f) \div 1000
ClipM(m) == IF m < 0 THEN 0 ELSE IF m > Milli(255) THEN Milli(255) ELSE m

\* What the last whole-array np.clip(..., 0, 255) of a variant may leave in
\* a sample: the transformations before it (filters, random noise) are not
\* computed.
TailSamples == {0, 255}
TailFrames == TailSamples \X TailSamples \X TailSamples

\* The vignette factor of a pixel, in thousandths: np.clip(vignette, lo, 1).
VignetteMin(b) ==
  CASE b = 0 -> 300 [] b = 1 -> 400 [] b = 2 -> 500 [] b = 3 -> 400
Vignettes(b) == {VignetteMin(b), 1000}

\* max_distance is 0, and distance / max_distance NaN, when both h // 2 and
\* w // 2 are 0.
VignetteIsNaN(shape) == shape[1] \div 2 = 0 /\ shape[2] \div 2 = 0

\* The statements from the last whole-array clip to the end of a branch,
\* on one pixel t (thousandths) with vignette factor vig.
LastSteps(b, t, vig) ==
  CASE b = 0 ->
         [c \in 1 .. 3 |-> ScaleM(t[c], vig)]
    [] b = 1 ->
         LET u == [t EXCEPT ![B] = ClipM(ScaleM(@, 1030))]
             w == [c \in 1 .. 3 |-> ScaleM(u[c], vig)]
         IN  [w EXCEPT ![B] = ClipM(@ + (1000 - vig) * 20)]
    [] b = 2 ->
         LET u1 == [t EXCEPT ![R] = ClipM(ScaleM(@, 1020))]
             u2 == [u1 EXCEPT ![R] = ClipM(ScaleM(@, 1030)),
                              ![G] = ClipM(ScaleM(@, 1020))]
             u3 == [c \in 1 .. 3 |-> ScaleM(u2[c], 990) + Milli(3)]
             u4 == [u3 EXCEPT ![G] = ClipM(ScaleM(@, 1010))]
             w == [c \in 1 .. 3 |-> ScaleM(u4[c], vig)]
         IN  [w EXCEPT ![G] = ClipM(@ + (1000 - vig) * 10)]
    [] b = 3 ->
         LET w == [c \in 1 .. 3 |-> ScaleM(t[c], vig)]
         IN  [w EXCEPT ![R] = ClipM(@ + (1000 - vig) * 30)]

\* Variant of PixelateShape without the final [:h, :w].
PixelateShape_no_crop(shape) ==
  <<2 * ((shape[1] + 1) \div 2), 2 * ((shape[2] + 1) \div 2)>>

\* np.repeat(np.repeat(img[::2, ::2], 2, axis=0), 2, axis=1)[:h, :w]
PixelateShape(shape) ==
  <<Min(shape[1], 2 * ((shape[1] + 1) \div 2)),
    Min(shape[2], 2 * ((shape[2] + 1) \div 2))>>

\* The shape of img at the end of a branch: only the pixelation of variant
\* 1 builds an array of another size.
TailShape(b, shape) == IF b = 1 THEN PixelateShape(shape) ELSE shape

\* The rest of a branch, up to its last statement.  With a NaN vignette
\* every sample is NaN, whatever t was.
FxTail ==
  /\ fx.pc = "tail"
  /\ \E t \in TailFrames, vig \in Vignettes(Branch(fx.variant)) :
       /\ VignetteIsNaN(fx.shape) => (t = <<0, 0, 0>> /\ vig = 1000)
       /\ fx' = [fx EXCEPT
                   !.pc = "return",
                   !.img = None,
                   !.shape = TailShape(Branch(fx.variant), @),
                   !.nan = VignetteIsNaN(fx.shape),
                   !.pre = Some(LastSteps(Branch(fx.variant),
                                          [c \in 1 .. 3 |-> Milli(t[c])], vig))]
  /\ UNCHANGED <<files, envVars, demuxVars, mainVars, renderVars, muxVars,
                 faults>>

\* astype(np.uint8) of one sample in thousandths: truncation, then the low
\* eight bits.
AsUint8(m) == (m \div 1000) % 256

\* return img.astype(np.uint8): a new array in every case.  When no branch
\* ran, img is still the array that was passed.  The cast of NaN is not
\* defined: any sample may come out.
FxReturn ==
  /\ fx.pc = "return"
  /\ \E any \in TailFrames :
       LET val == IF fx.pre = None THEN [c \in 1 .. 3 |-> Milli(fx.frame[c])]
                  ELSE fx.pre[1]
           out == IF fx.nan THEN any ELSE [c \in 1 .. 3 |-> AsUint8(val[c])]
       IN  /\ ~fx.nan => any = <<0, 0, 0>>
           /\ fx' = [fx EXCEPT !.pc = "returned",
                               !.ret = Some([shape |-> fx.shape,
                                             dtype |-> "uint8",
                                             samples |-> out])]
  /\ UNCHANGED <<files, envVars, demuxVars, mainVars, renderVars, muxVars,
                 faults>>

NextEffect ==
  \/ FxInPlace
  \/ FxRebind
  \/ FxBrightness
  \/ FxContrast
  \/ FxTail
  \/ FxReturn
EffectSpec == InitEffect /\ [][NextEffect]_vars

\* Every runnable thread is eventually scheduled.
FairSpec == Spec /\ WF_vars(Next)

\* ================================================================ claims
FrameCount == Len(all_frames.list)
MuxStarted == muxPc # "idle"
AtEffectEntry(i) ==
  /\ rpc[i] \in {"inplace1", "rebind"}
  /\ rpc[i] = EffectEntry(Arg(i).effect_variant)

\* C1: during the render phase no Renderer alters a frame of the shared
\* Frame Sequence: at every moment, and so also after all Renderers have
\* terminated, every entry holds the samples demux produced.
C1_FramesKeepDecodedSamples ==
  all_frames.absent \/ all_frames.list = source.frames

\* C2: the Remux Stage starts only after all four Renderer threads have
\* terminated, by success or by failure; while one of them has not
\* terminated, mux_videos has not been called.
C2_MuxOnlyAfterAllRenderers ==
  MuxStarted => \A i \in Variants : Terminated(i)

C2_Witness ==
  /\ muxPc = "check"
  /\ \E i \in Variants : rpc[i] = "failed"
  /\ \E i \in Variants : rpc[i] = "done"

\* C3: an exception raised inside one Renderer is caught inside
\* process_all_frames: it never leaves the thread, the step that raises
\* changes nothing of the other Renderers or of main, and afterwards the
\* Renderers that did not raise encode every frame and finish and main goes
\* on to the Remux Stage.
OthersUntouched(i) ==
  /\ \A j \in Variants \ {i} :
       /\ rpc'[j] = rpc[j]
       /\ ridx'[j] = ridx[j]
       /\ encoded'[j] = encoded[j]
       /\ processed_count'[j] = processed_count[j]
  /\ UNCHANGED <<mainVars, source>>

C3_RendererFailureIsolated ==
  /\ [](\A i \in Variants : ~escaped[i])
  /\ [][\A i \in Variants :
          (rpc[i] # "failed" /\ rpc'[i] = "failed") => OthersUntouched(i)]_vars
  /\ ((\E i \in Variants : rpc[i] = "failed")
        ~> (/\ MuxStarted
            /\ \A j \in Variants :
                 \/ rpc[j] = "failed"
                 \/ rpc[j] = "done" /\ Len(encoded[j]) = FrameCount))

C3_Witness ==
  /\ MuxStarted
  /\ FrameCount > 0
  /\ \E i \in Variants :
       /\ rpc[i] = "failed"
       /\ \A j \in Variants \ {i} :
            rpc[j] = "done" /\ Len(encoded[j]) = FrameCount

\* C4: whenever Renderer i is about to run apply_video_effects on the frame
\* at index N, that frame holds the samples demux decoded at index N,
\* wherever the other Renderers are.
C4_HandedFrameIsDecodedFrame ==
  \A i \in Variants :
    (rpc[i] # "idle" /\ AtEffectEntry(i)) =>
      all_frames.list[ridx[i]] = source.frames[ridx[i]]

\* C5: main starts exactly four Renderer threads; thread i gets the one
\* Frame Sequence object, variant id i and temp_processed_{i+1}.mp4, so the
\* output paths are pairwise distinct.
TempName(k) ==
  CASE k = 1 -> "temp_processed_1.mp4" [] k = 2 -> "temp_processed_2.mp4"
    [] k = 3 -> "temp_processed_3.mp4" [] k = 4 -> "temp_processed_4.mp4"

C5_FourDistinctRenderers ==
  /\ Len(threads) <= 4
  /\ (mainPc \in {"join", "mux", "verify", "cleanup"} \/ MuxStarted)
       => Len(threads) = 4
  /\ \A i \in Variants : (rpc[i] # "idle") <=> (i < Len(threads))
  /\ \A k \in 1 .. Len(threads) :
       /\ threads[k].effect_variant = k - 1
       /\ threads[k].output_file = TempName(k)
       /\ threads[k].all_frames = all_frames.ref
  /\ \A k, m \in 1 .. Len(threads) :
       k # m => threads[k].output_file # threads[m].output_file

C5_Witness ==
  /\ Len(threads) = 4
  /\ \A i \in Variants : Running(i)

\* C6: all four Renderer threads are started before main joins any of
\* them.
C6_AllStartedBeforeFirstJoin ==
  (mainPc = "join") =>
     (Len(threads) = NumVariants /\ \A i \in Variants : rpc[i] # "idle")

C6_Witness ==
  /\ mainPc = "join"
  /\ ji = 0
  /\ \A i \in Variants : Running(i)

\* C7: a Renderer encodes the frames in Frame Sequence order, each exactly
\* once with its own variant: what it has submitted is always the prefix
\* 1, 2, ... of the indices, and when it completes without error it has
\* submitted all n of them.
C7_EncodedInFrameOrder ==
  \A i \in Variants :
    /\ \A k \in 1 .. Len(encoded[i]) :
         /\ encoded[i][k].index = k
         /\ encoded[i][k].effect_variant = i
    /\ rpc[i] = "done" =>
         (Len(encoded[i]) = FrameCount /\ processed_count[i] = FrameCount)

C7_Witness ==
  /\ FrameCount = 2
  /\ \E i \in Variants : rpc[i] = "done" /\ Len(encoded[i]) = 2

Entries(log) == {log[n] : n \in 1 .. Len(log)}
EntriesOf(log, k) == {n \in 1 .. Len(log) : log[n].pair = k}
FoundAtCheck(k) == \E e \in Entries(exists_checks) : e.pair = k /\ e.result
PairFinished(k) ==
  \/ muxPc = "returned"
  \/ MuxStarted /\ k < mux_i

\* C8: when mux_videos returns, every pair whose rendered file exists has a
\* file at its final output path, whether the external tool succeeded,
\* exited non-zero or could not be run at all, unless that pair's fallback
\* copy itself failed.
C8_OutputForEveryRenderedFile ==
  (muxPc = "returned") =>
    \A k \in 1 .. NumPairs :
      FoundAtCheck(k) =>
        \/ Exists(files, PairOut(k))
        \/ \E c \in Entries(copy_calls) : c.pair = k /\ c.raised

\* C9: the fallback copy is invoked for a pair exactly when the external
\* tool was invoked for that pair and returned a non-zero status; it copies
\* that pair's rendered file to that pair's output, and a pair whose tool
\* run returned 0 or whose rendered file is absent gets no copy.
C9_FallbackIffNonZeroStatus ==
  /\ \A c \in Entries(copy_calls) :
       /\ \E t \in Entries(tool_runs) :
            t.pair = c.pair /\ ~t.raised /\ t.returncode # 0
       /\ \A t \in Entries(tool_runs) :
            t.pair = c.pair => (~t.raised /\ t.returncode # 0)
       /\ FoundAtCheck(c.pair)
       /\ c.src = PairIn(c.pair)
       /\ c.dst = PairOut(c.pair)
  /\ \A t \in Entries(tool_runs) :
       (PairFinished(t.pair) /\ ~t.raised /\ t.returncode # 0)
         => Cardinality(EntriesOf(copy_calls, t.pair)) = 1

C9_Witness ==
  /\ muxPc = "returned"
  /\ Len(copy_calls) = 1
  /\ \E t \in Entries(tool_runs) : ~t.raised /\ t.returncode = 0
  /\ \E e \in Entries(exists_checks) : ~e.result

\* C10: mux_videos never raises; an exception from the tool invocation or
\* the fallback copy of pair k stays with pair k, and every pair of the
\* overlapping prefix gets exactly one existence check and, if its rendered
\* file exists, its own tool invocation.
C10_MuxNeverRaises ==
  /\ ~mux_raised
  /\ (muxPc = "returned") =>
       \A k \in 1 .. NumPairs :
         /\ Cardinality(EntriesOf(exists_checks, k)) = 1
         /\ FoundAtCheck(k) => Cardinality(EntriesOf(tool_runs, k)) = 1

C10_Witness ==
  /\ muxPc = "returned"
  /\ \/ \E t \in Entries(tool_runs) : t.raised /\ t.pair < NumPairs
     \/ \E c \in Entries(copy_calls) : c.raised /\ c.pair < NumPairs
  /\ Len(tool_runs) = NumPairs

\* The number of pairs zip yields, from the two lists themselves.
ListOverlap ==
  IF Len(mux_args.processed_files) < Len(mux_args.final_outputs)
  THEN Len(mux_args.processed_files) ELSE Len(mux_args.final_outputs)

\* C11: for a pair whose rendered file is absent, mux_videos runs no tool
\* and no copy and leaves the pair's final output path as it was, and it
\* still gives every later pair its existence check and, where the rendered
\* file is there, its tool invocation.
C11_MissingRenderedFileSkipped ==
  \A e \in Entries(exists_checks) :
    ~e.result =>
      /\ EntriesOf(tool_runs, e.pair) = {}
      /\ EntriesOf(copy_calls, e.pair) = {}
      /\ files[mux_args.final_outputs[e.pair]] =
           files0[mux_args.final_outputs[e.pair]]
      /\ (muxPc = "returned") =>
           \A j \in (e.pair + 1) .. ListOverlap :
             /\ Cardinality(EntriesOf(exists_checks, j)) = 1
             /\ Exists(files0, mux_args.processed_files[j]) =>
                  Cardinality(EntriesOf(tool_runs, j)) = 1

C11_Witness ==
  /\ muxPc = "returned"
  /\ \E e \in Entries(exists_checks), t \in Entries(tool_runs) :
       /\ ~e.result
       /\ e.pair < t.pair
       /\ Exists(files, mux_args.final_outputs[t.pair])
       /\ ~Exists(files, mux_args.final_outputs[e.pair])

\* C12: mux_videos pairs the two lists by index up to the length of the
\* shorter one: the n-th existence check is for pair n and its rendered
\* file, every tool run and copy of pair k uses entry k of both lists, no
\* exception leaves the call, and on return exactly as many pairs were
\* checked as the shorter list has entries (none when a list is empty).
C12_PairsUpToShorterList ==
  /\ ~mux_raised
  /\ Len(exists_checks) <= ListOverlap
  /\ \A n \in 1 .. Len(exists_checks) :
       /\ exists_checks[n].pair = n
       /\ exists_checks[n].path = mux_args.processed_files[n]
  /\ \A t \in Entries(tool_runs) :
       /\ t.pair \in 1 .. ListOverlap
       /\ t.cmd = Cmd(mux_args.processed_files[t.pair],
                      mux_args.final_outputs[t.pair])
  /\ \A c \in Entries(copy_calls) :
       /\ c.pair \in 1 .. ListOverlap
       /\ c.src = mux_args.processed_files[c.pair]
       /\ c.dst = mux_args.final_outputs[c.pair]
  /\ (muxPc = "returned") => Len(exists_checks) = ListOverlap

C12_Witness ==
  /\ muxPc = "returned"
  /\ Len(mux_args.processed_files) = 3
  /\ Len(mux_args.final_outputs) = 2
  /\ Len(exists_checks) = 2
  /\ Len(tool_runs) = 2

\* The call of demux_video_once has returned / met an error on its way.
DemuxReturned == dm.pc = "returned" /\ demux_ret # None
DemuxFailed ==
  \/ ~Exists(files, input_file)
  \/ source.corrupt
  \/ faults > 0
NoneTriple == [frames |-> None, video_info |-> None, audio_info |-> None]

\* C13: when opening the input, reading the streams, decoding or converting
\* a frame raises, demux_video_once returns (None, None, None): neither the
\* frames collected nor the metadata read before the failure are returned.
C13_FailureReturnsNoneTriple ==
  (DemuxReturned /\ DemuxFailed) => demux_ret[1] = NoneTriple

C13_Witness ==
  /\ DemuxReturned
  /\ faults = 1
  /\ Len(dm.frames) >= 1
  /\ dm.video_info # None
  /\ dm.audio_info # None
  /\ demux_ret[1] = NoneTriple

\* C14: when nothing raises, demux_video_once returns a present frame list
\* holding the decoded frames in decode order, video_info present exactly
\* when the container has a video stream and audio_info present exactly
\* when it has an audio stream; for a container with no streams it returns
\* a present empty list and both metadata absent, which is not the value
\* returned on failure.
C14_SuccessReturnsFramesAndInfo ==
  (DemuxReturned /\ ~DemuxFailed) =>
    LET ret == demux_ret[1]
    IN  /\ ret.frames = Some(source.frames)
        /\ (ret.video_info # None) <=> HasType(source.streams, "video")
        /\ (ret.audio_info # None) <=> HasType(source.streams, "audio")
        /\ (source.streams = <<>>) =>
             /\ ret = [frames |-> Some(<<>>), video_info |-> None,
                       audio_info |-> None]
             /\ ret # NoneTriple

C14_Witness ==
  /\ DemuxReturned
  /\ ~DemuxFailed
  /\ source.streams = <<>>
  /\ demux_ret[1].frames = Some(<<>>)
  /\ dm.container = "closed"

\* The index of the first stream of a type in container order.
IsFirstOfType(streams, type, k) ==
  /\ k \in 1 .. Len(streams)
  /\ streams[k].type = type
  /\ \A j \in 1 .. (k - 1) : streams[j].type # type

\* C15: with several streams of a type, video_info is built from the first
\* video stream and audio_info from the first audio stream in container
\* order, whatever streams of other types lie between; every field comes
\* from that stream and none from a later one.
C15_InfoFromFirstStreamOfType ==
  (DemuxReturned /\ ~DemuxFailed) =>
    LET ret == demux_ret[1]
    IN  /\ \A k \in 1 .. Len(source.streams) :
             IsFirstOfType(source.streams, "video", k) =>
               ret.video_info =
                 Some([width |-> source.streams[k].width,
                       height |-> source.streams[k].height,
                       rate |-> source.streams[k].average_rate,
                       time_base |-> source.streams[k].time_base])
        /\ \A k \in 1 .. Len(source.streams) :
             IsFirstOfType(source.streams, "audio", k) =>
               ret.audio_info =
                 Some([rate |-> source.streams[k].rate,
                       channels |-> source.streams[k].channels,
                       layout |-> source.streams[k].layout])

C15_Witness ==
  /\ DemuxReturned
  /\ ~DemuxFailed
  /\ source.streams = <<Audio2, Video2, Video1>>
  /\ demux_ret[1].video_info = Some(VideoInfo(Video2))
  /\ demux_ret[1].audio_info = Some(AudioInfo(Audio2))

\* main has met one of its two early exits.
InputMissing == ~Exists(files0, input_file)
DemuxGaveNone == dm.pc = "returned" /\ demux_ret[1].frames = None

\* C16: when the input file does not exist, or demux_video_once returned an
\* absent frame list, main starts no thread, does not call mux_videos and
\* creates or deletes no file: it only returns.
C16_EarlyExitDoesNothing ==
  (InputMissing \/ DemuxGaveNone) =>
    /\ threads = <<>>
    /\ \A i \in Variants : rpc[i] = "idle"
    /\ muxPc = "idle"
    /\ files = files0
    /\ mainPc \in {"check_input", "demux", "returned"}

C16_Witness ==
  /\ mainPc = "returned"
  /\ DemuxGaveNone
  /\ dm.container = "open"
  /\ Exists(files, final_outputs[1])

\* C17: demux_video_once is called once, and it has returned the complete
\* frame list before the first Renderer starts; nothing calls it again, and
\* the list every Renderer iterates has the length of the list it returned.
C17_DemuxOnceBeforeRenderers ==
  /\ dm.calls <= 1
  /\ \A i \in Variants :
       rpc[i] # "idle" =>
         /\ dm.calls = 1
         /\ dm.pc = "returned"
         /\ demux_ret[1].frames # None
         /\ Len(demux_ret[1].frames[1]) = Len(source.frames)
         /\ ~all_frames.absent
         /\ Len(all_frames.list) = Len(demux_ret[1].frames[1])
         /\ ridx[i] <= Len(demux_ret[1].frames[1]) + 1
         /\ rpc[i] = "done" => Len(encoded[i]) = Len(demux_ret[1].frames[1])

C17_Witness ==
  /\ dm.calls = 1
  /\ dm.pc = "returned"
  /\ Len(source.frames) = 2
  /\ \E i \in Variants :
       rpc[i] = "done" /\ Len(encoded[i]) = Len(source.frames)

\* A final output this run's Remux Stage wrote, by the tool or by the copy.
ProducedByThisRun(p) == files[p].kind \in {"mux", "copy"}

\* C18: main deletes the intermediate files only in a run in which all four
\* final outputs were produced by that run's Remux Stage; when one of them
\* was not produced, the cleanup loop is not entered and every intermediate
\* file stays in place.
C18_CleanupOnlyAfterFullSuccess ==
  (mainPc = "cleanup") =>
    \A k \in 1 .. Len(final_outputs) : ProducedByThisRun(final_outputs[k])

\* C19: after a Renderer has failed, its intermediate file is absent, not
\* partial, and the Remux Stage runs no tool on that Renderer's pair.
C19_FailedRendererLeavesNoFile ==
  \A i \in Variants :
    rpc[i] = "failed" =>
      /\ ~Exists(files, Arg(i).output_file)
      /\ EntriesOf(tool_runs, i + 1) = {}

\* C20: for each variant identity 0, 1, 2, 3, a call of apply_video_effects
\* leaves the array passed as frame unchanged, at every point of the call
\* and after it has returned.
C20_EffectLeavesFrameUnchanged ==
  fx.variant \in Variants => fx.frame = fx.frame0

\* C21: for a variant identity outside 0..3 and any 8-bit frame, the array
\* apply_video_effects returns has the shape, the type and every sample of
\* the frame passed, and the frame passed is unchanged.
C21_UnknownVariantReturnsInput ==
  (fx.pc = "returned" /\ fx.variant \notin {0, 1, 2, 3}) =>
    /\ fx.ret # None
    /\ fx.ret[1].shape = fx.shape0
    /\ fx.ret[1].dtype = "uint8"
    /\ fx.ret[1].samples = fx.frame0
    /\ fx.frame = fx.frame0

C21_Witness ==
  /\ fx.pc = "returned"
  /\ fx.variant = 4
  /\ fx.frame0 = <<200, 90, 1>>
  /\ fx.ret[1].samples = <<200, 90, 1>>

\* The value within 0..255 nearest to x.
Saturate(x) == IF x < 0 THEN 0 ELSE IF x > 255 THEN 255 ELSE x

\* C22: no 8-bit operation wraps around: in variant 0 the brightness step
\* leaves in every sample the inverted sample plus 30, saturated at 255,
\* and the contrast step leaves (b - 128) * 1.2 + 128 of the brightness
\* result b, saturated at 0 and 255.
C22_Variant0StepsSaturate ==
  (fx.variant = 0 /\ fx.pc \in {"contrast", "tail"}) =>
    \A c \in 1 .. 3 :
      LET inverted == 255 - fx.frame0[c]
          b == Brighten(Invert(fx.frame0[c]))
      IN  /\ fx.pc = "contrast" => fx.img[1][c] = Saturate(inverted + 30)
          /\ fx.pc = "tail" =>
               fx.img[1][c] = Saturate((12 * (b - 128)) \div 10 + 128)

\* C23: for each variant identity 0..3 and every frame, whatever its height
\* and width and also when it is all black or all white, the returned array
\* is 8-bit, has the height and width of the frame passed and three
\* channels, and every sample lies in 0..255.
C23_ResultIsEightBitSameShape ==
  (fx.pc = "returned" /\ fx.variant \in {0, 1, 2, 3}) =>
    /\ fx.ret # None
    /\ fx.ret[1].shape = fx.shape0
    /\ fx.ret[1].dtype = "uint8"
    /\ Len(fx.ret[1].samples) = 3
    /\ \A c \in 1 .. 3 : fx.ret[1].samples[c] \in 0 .. 255

C23_Witness ==
  /\ fx.pc = "returned"
  /\ fx.variant = 1
  /\ fx.shape0 = <<3, 2>>
  /\ fx.frame0 = <<255, 255, 255>>
  /\ fx.ret[1].samples[B] = 255

\* C24: every invocation of the external tool is the only one of its pair,
\* is made for a pair whose rendered file was found, and names that pair's
\* rendered file as first (video) input, test.mp4 as second (audio) input
\* and that pair's output as destination, with overwrite allowed, the video
\* stream copied, the audio encoded to AAC, video mapped from input 0 and
\* audio from input 1, and stopping at the shorter stream; a final output
\* holds video of no rendered file but its own pair's.
C24_ToolCommandOfPair ==
  /\ \A t \in Entries(tool_runs) :
       LET k == t.pair
       IN  /\ Cardinality(EntriesOf(tool_runs, k)) = 1
           /\ FoundAtCheck(k)
           /\ Len(t.cmd) = 16
           /\ SubSeq(t.cmd, 1, 3) = <<"ffmpeg", "-y", "-i">>
           /\ t.cmd[4] = mux_args.processed_files[k]
           /\ SubSeq(t.cmd, 5, 6) = <<"-i", "test.mp4">>
           /\ SubSeq(t.cmd, 7, 10) = <<"-c:v", "copy", "-c:a", "aac">>
           /\ SubSeq(t.cmd, 11, 14) = <<"-map", "0:v:0", "-map", "1:a:0">>
           /\ t.cmd[15] = "-shortest"
           /\ t.cmd[16] = mux_args.final_outputs[k]
  /\ \A k \in 1 .. ListOverlap :
       LET out == files[mux_args.final_outputs[k]]
       IN  /\ out.kind \in {"mux", "copy"} =>
                out.video = mux_args.processed_files[k]
           /\ out.kind = "mux" => out.audio = "test.mp4"

C24_Witness ==
  /\ muxPc = "returned"
  /\ \E t \in Entries(tool_runs) :
       /\ t.pair = 2
       /\ t.returncode = 0
       /\ t.cmd[4] = "temp_processed_2.mp4"
       /\ t.cmd[16] = "out2.mp4"
  /\ files["out2.mp4"].kind = "mux"

\* main has gone through the verification step and has returned.
VerifiedAndReturned == mainPc = "returned" /\ ci >= 1

\* C26: once demux has succeeded, and with every Renderer, tool run and
\* copy eventually returning, main eventually passes the verification of
\* the final outputs and terminates, whichever Renderers, tool runs and
\* copies fail on the way.
C26_MainTerminatesAfterVerify ==
  (mainPc = "start") ~> VerifiedAndReturned

C26_Witness ==
  /\ VerifiedAndReturned
  /\ \E i \in Variants : rpc[i] = "failed"
  /\ \E t \in Entries(tool_runs) : ~t.raised /\ t.returncode # 0
  /\ copy_calls # <<>>

\* The threads main has started for variant i.
StartsOf(i) == {n \in 1 .. Len(threads) : threads[n].effect_variant = i}

\* C27: nothing is retried: in one run main starts at most one Renderer per
\* variant, and for each pair mux_videos checks the rendered file, runs the
\* tool and calls the fallback copy at most once each, whatever fails.
C27_NothingIsRetried ==
  /\ \A i \in Variants : Cardinality(StartsOf(i)) <= 1
  /\ \A k \in 1 .. NumVariants :
       /\ Cardinality(EntriesOf(exists_checks, k)) <= 1
       /\ Cardinality(EntriesOf(tool_runs, k)) <= 1
       /\ Cardinality(EntriesOf(copy_calls, k)) <= 1

C27_Witness ==
  /\ mainPc = "returned"
  /\ \A i \in Variants : Cardinality(StartsOf(i)) = 1
  /\ \E t \in Entries(tool_runs) : t.raised
  /\ \E c \in Entries(copy_calls) : ~c.raised

\* C28: whenever demux_video_once has opened the source container, the
\* container has been closed exactly once by the time the call returns, on
\* the success path and on every error path.
C28_OpenedContainerClosedOnce ==
  (dm.pc = "returned" /\ dm.container # "none") =>
    (dm.container = "closed" /\ dm.closes = 1)

\* demux_video_once has returned a frame list that is present and empty.
DemuxGaveEmptyList ==
  dm.pc = "returned" /\ demux_ret # None /\ demux_ret[1].frames = Some(<<>>)

\* C29: when demux_video_once returns a present but empty frame list, main
\* does not return early: it starts all four Renderers; a Renderer never
\* enters the effect pipeline, and one that finishes has encoded zero
\* frames and closed its output; mux_videos then goes through all four
\* pairs.  With no injected failure every Renderer finishes.
C29_EmptyListStillRendered ==
  DemuxGaveEmptyList =>
    /\ \A i \in Variants :
         /\ rpc[i] \in {"idle", "open", "flush", "done", "failed"}
         /\ encoded[i] = <<>>
         /\ processed_count[i] = 0
         /\ (rpc[i] = "done" /\ mainPc \notin {"cleanup", "returned"}) =>
              files[processed_files[i + 1]] = RenderClosed
         /\ rpc[i] = "failed" => faults > 0
    /\ mainPc \in {"verify", "cleanup", "returned"} =>
         /\ Len(threads) = NumVariants
         /\ \A i \in Variants : Terminated(i)
         /\ \A k \in 1 .. NumVariants : EntriesOf(exists_checks, k) # {}

C29_Witness ==
  /\ DemuxGaveEmptyList
  /\ mainPc = "returned"
  /\ faults = 0
  /\ \A i \in Variants : rpc[i] = "done"
  /\ \A k \in 1 .. NumVariants : FoundAtCheck(k)
  /\ Len(tool_runs) = NumVariants

\* The calls a Renderer that completes makes on its output container for
\* a list of n frames.
Protocol(n) == <<"open">> \o [k \in 1 .. n |-> "encode"] \o <<"flush", "close">>

\* The positions of call op in the log of Renderer i.
CallsOf(i, op) ==
  {n \in 1 .. Len(out_container[i]) : out_container[i][n] = op}

\* C30: a Renderer that completes without error has opened its container,
\* encoded every frame, flushed and closed, in this order; in every
\* Renderer the encoder is flushed at most once, no frame is encoded after
\* the flush, and the container is closed at most once, right after the
\* flush.
C30_OpenEncodeFlushClose ==
  \A i \in Variants :
    /\ rpc[i] = "done" => out_container[i] = Protocol(Len(all_frames.list))
    /\ Cardinality(CallsOf(i, "flush")) <= 1
    /\ Cardinality(CallsOf(i, "close")) <= 1
    /\ \A f \in CallsOf(i, "flush") :
         /\ \A e \in CallsOf(i, "encode") : e < f
         /\ Len(encoded[i]) = Len(all_frames.list)
    /\ \A c \in CallsOf(i, "close") : c > 1 /\ out_container[i][c - 1] = "flush"

C30_Witness ==
  \E i \in Variants :
    /\ rpc[i] = "done"
    /\ Len(all_frames.list) = 2
    /\ out_container[i] = <<"open", "encode", "encode", "flush", "close">>

====
